---- MODULE Spec2Model ----
(***************************************************************************)
(* Model of daily_timeline_viz.py: the weekly focus-session timeline       *)
(* report.  main() loads logs.csv (load_session_data), groups the valid    *)
(* sessions by week and weekday (generate_html_report), lays out one       *)
(* seven-column figure per week (create_weekly_timeline), saves it, and    *)
(* writes the index document.  A second program, show_analysis.py, is     *)
(* modelled from run_analysis on: it prepares the output directory, asks   *)
(* visualize_logs.generate_gemini_report for the AI text and writes        *)
(* focus_report.html.                                                      *)
(*                                                                         *)
(* Units.  Times of day and durations are kept in minutes, so that the     *)
(* code's hour + minute/60, duration/60 and the 0.5 h padding are exact    *)
(* integers: an "hour" value h of the code is the integer 60*h here.       *)
(* Dates are day numbers; day 0 is a Monday (2024-01-01), so that          *)
(* pandas' dayofweek of day d is d % 7.                                    *)
(***************************************************************************)
EXTENDS Integers, Sequences, FiniteSets, TLC

VARIABLES
    csv_exists,            \* os.path.exists(csv_file) in main()
    rows,                  \* the data rows of logs.csv, in file order
    pc,                    \* position of main()
    df,                    \* the DataFrame returned by load_session_data
    weekly_sessions_dict,  \* week_start -> (day_of_week -> sessions)
    sorted_weeks,          \* sorted(weekly_sessions_dict.keys())
    week_idx,              \* position of the for loop over sorted_weeks
    figs,                  \* the figures created so far, one per week
    saved,                 \* the PNG files written so far (filenames)
    timeline_files,        \* (week_start, filename, minutes, sessions)
    html,                  \* the index document, once written
    GEMINI_AVAILABLE,      \* visualize_logs.GEMINI_AVAILABLE, set at import
    apc,                   \* position of run_analysis()
    run,                   \* the number of the run_analysis() call
    gemini_insights,       \* the file gemini_insights.md of output_dir
    gemini_result,         \* how this run's generate_gemini_report ended
    html_content,          \* the AI text of run_analysis's html_content
    focus_report,          \* the file focus_report.html of output_dir
    browser_opened,        \* webbrowser.open was called in this run
    returned               \* the value run_analysis returned

timelineVars == <<csv_exists, rows, pc, df, weekly_sessions_dict, sorted_weeks,
                  week_idx, figs, saved, timeline_files, html>>

analysisVars == <<GEMINI_AVAILABLE, apc, run, gemini_insights, gemini_result,
                  html_content, focus_report, browser_opened, returned>>

vars == <<csv_exists, rows, pc, df, weekly_sessions_dict, sorted_weeks,
          week_idx, figs, saved, timeline_files, html,
          GEMINI_AVAILABLE, apc, run, gemini_insights, gemini_result,
          html_content, focus_report, browser_opened, returned>>

----------------------------------------------------------------------------
(* Bounds of the model *)

MaxRows == 2
MaxDay == 3

MaxWeek == 20

MaxRuns == 2

----------------------------------------------------------------------------
(* Generic helpers *)

Min(a, b) == IF a <= b THEN a ELSE b

Max(a, b) == IF a >= b THEN a ELSE b

Range(s) == {s[i] : i \in 1..Len(s)}

RECURSIVE SumSeq(_)
SumSeq(s) == IF s = <<>> THEN 0 ELSE Head(s) + SumSeq(Tail(s))

----------------------------------------------------------------------------
(* The CSV input.  A data row of logs.csv has the cells task_name,         *)
(* duration_minutes and timestamp (the other four columns are not read).   *)
(*   task_name : the cell's text, a sequence of characters; <<>> is an     *)
(*               empty cell.                                               *)
(*   duration  : [num |-> TRUE, v |-> n] for text that is the number n,    *)
(*               [num |-> FALSE, v |-> 0] for any other text, and for an   *)
(*               empty cell.                                               *)
(*   timestamp : [fmt |-> "ok", day |-> d, sec |-> s] for text in the      *)
(*               format %Y-%m-%d %H:%M:%S naming second s of day d,        *)
(*               [fmt |-> "empty", ...] for an empty cell and              *)
(*               [fmt |-> "bad", ...] for any other text.                  *)

WriteSpec == <<"W", "r", "i", "t", "e", " ", "S", "p", "e", "c">>

\* Task names of 16, 18 and 19 characters.
Letters ==
    <<"a", "b", "c", "d", "e", "f", "g", "h", "i", "j",
      "k", "l", "m", "n", "o", "p", "q", "r", "s">>

LongNames == {SubSeq(Letters, 1, n) : n \in {16, 18, 19}}

Days == 0..MaxDay

\* 06:30:00, 07:00:30, 23:30:00
TimesOfDay == {6 * 3600 + 30 * 60, 7 * 3600 + 30, 23 * 3600 + 30 * 60}

Durations == {20, 120}

NumCell(n) == [num |-> TRUE, v |-> n]

TextCell == [num |-> FALSE, v |-> 0]

StampCell(d, s) == [fmt |-> "ok", day |-> d, sec |-> s]

EmptyStampCell == [fmt |-> "empty", day |-> 0, sec |-> 0]

BadStampCell == [fmt |-> "bad", day |-> 0, sec |-> 0]

GoodRows ==
    { [task_name |-> WriteSpec, duration |-> NumCell(m), timestamp |-> StampCell(d, s)] :
        d \in Days, s \in TimesOfDay, m \in Durations }

\* Rows with a long task name, at 07:00:30 of day 0.
LongNameRows ==
    { [task_name |-> name, duration |-> NumCell(20), timestamp |-> StampCell(0, 7 * 3600 + 30)] :
        name \in LongNames }

BadRows ==
    { [task_name |-> WriteSpec, duration |-> TextCell, timestamp |-> StampCell(0, 9 * 3600)],
      [task_name |-> WriteSpec, duration |-> NumCell(0), timestamp |-> StampCell(0, 9 * 3600)],
      [task_name |-> WriteSpec, duration |-> NumCell(-5), timestamp |-> StampCell(0, 9 * 3600)],
      [task_name |-> <<>>, duration |-> NumCell(20), timestamp |-> StampCell(0, 9 * 3600)],
      [task_name |-> WriteSpec, duration |-> NumCell(20), timestamp |-> EmptyStampCell],
      [task_name |-> WriteSpec, duration |-> NumCell(20), timestamp |-> BadStampCell] }

CsvRows == GoodRows \cup LongNameRows \cup BadRows

CsvFiles == UNION { [1..n -> CsvRows] : n \in 0..MaxRows }

----------------------------------------------------------------------------
(* load_session_data *)

NaT == [nat |-> TRUE, day |-> 0, sec |-> 0]

Timestamp(d, s) == [nat |-> FALSE, day |-> d, sec |-> s]

NaTDate == [nat |-> TRUE, day |-> 0]

Date(d) == [nat |-> FALSE, day |-> d]

NaN == [nan |-> TRUE, v |-> 0]

Num(n) == [nan |-> FALSE, v |-> n]

\* pd.read_csv: an empty cell is read as NaN.  A name is [nan, v] with v the text.
ReadName(text) == IF text = <<>> THEN [nan |-> TRUE, v |-> <<>>] ELSE [nan |-> FALSE, v |-> text]

\* pd.to_datetime(..., format='%Y-%m-%d %H:%M:%S'), errors='raise' by default:
\* the call raises ValueError when some cell does not match the format.  An
\* empty cell (NaN) does not raise: it becomes NaT.
ToDatetimeRaises(file) == \E i \in 1..Len(file) : file[i].timestamp.fmt = "bad"

\* The value of one cell when the call does not raise.
ToDatetime(cell) == IF cell.fmt = "empty" THEN NaT ELSE Timestamp(cell.day, cell.sec)

\* pd.to_numeric(..., errors='coerce').fillna(0)
ToNumeric(cell) == IF cell.num THEN cell.v ELSE 0

\* .dt.date
DtDate(ts) == IF ts.nat THEN NaTDate ELSE Date(ts.day)

\* .dt.dayofweek, Monday=0, Sunday=6
DayOfWeek(ts) == IF ts.nat THEN NaN ELSE Num(ts.day % 7)

\* .dt.to_period('W-MON').dt.start_time.dt.date: the pandas weekly frequency
\* W-MON is the week that ENDS on Monday, so the period holding a day runs from
\* a Tuesday to the Monday on or after the day, and start_time is that Tuesday.
PeriodEnd(d) == d + ((7 - (d % 7)) % 7)

\* Faulty variant of WeekStart: the start taken seven days before the end.
WeekStartSevenBack(ts) == IF ts.nat THEN NaTDate ELSE Date(PeriodEnd(ts.day) - 7)

WeekStart(ts) == IF ts.nat THEN NaTDate ELSE Date(PeriodEnd(ts.day) - 6)

\* Lines 113-116: the columns computed for one row before the filter.
ParsedRow(r) ==
    LET ts == ToDatetime(r.timestamp)
    IN  [task_name |-> ReadName(r.task_name),
         duration_minutes |-> ToNumeric(r.duration),
         timestamp |-> ts,
         date |-> DtDate(ts)]

\* Faulty variant of Keep: a zero duration passes.
KeepNonNegative(p) == p.duration_minutes >= 0 /\ ~p.task_name.nan /\ p.task_name.v # <<>>

\* Lines 118-120: the filter.
Keep(p) == p.duration_minutes > 0 /\ ~p.task_name.nan /\ p.task_name.v # <<>>

\* Lines 122-124: the week columns of a kept row.  src is the row's position in
\* the file (the DataFrame index).
Record(p, i) ==
    [task_name |-> p.task_name.v,
     duration_minutes |-> p.duration_minutes,
     timestamp |-> p.timestamp,
     date |-> p.date,
     week_start |-> WeekStart(p.timestamp),
     day_of_week |-> DayOfWeek(p.timestamp),
     src |-> i]

RECURSIVE LoadFrom(_, _)
LoadFrom(file, i) ==
    IF i > Len(file) THEN <<>>
    ELSE LET p == ParsedRow(file[i])
         IN  IF Keep(p) THEN <<Record(p, i)>> \o LoadFrom(file, i + 1)
             ELSE LoadFrom(file, i + 1)

load_session_data(file) == LoadFrom(file, 1)

----------------------------------------------------------------------------
(* DataFrame operations used by the report *)

\* The sort key of a timestamp: seconds since day 0.
Instant(ts) == ts.day * 86400 + ts.sec

\* sort_values('timestamp') of a frame without NaT, with the default
\* kind='quicksort': the rows come out in ascending order of timestamp, and
\* the order of rows with equal timestamps is whatever the sort leaves
\* (numpy's introsort keeps the input order only while a list has at most 16
\* rows; the short lists of the model stand for lists of any length).  The
\* set of the orders the call can return.
SortValues(s) ==
    { [k \in 1..Len(s) |-> s[p[k]]] :
        p \in { q \in [1..Len(s) -> 1..Len(s)] :
                   /\ \A i, j \in 1..Len(s) : i # j => q[i] # q[j]
                   /\ \A i, j \in 1..Len(s) :
                         i < j => Instant(s[q[i]].timestamp) <= Instant(s[q[j]].timestamp) } }

\* groupby('week_start'): the keys are the week starts of the frame; rows whose
\* key is NaT belong to no group (dropna=True).
WeekKeys(frame) == {frame[i].week_start.day : i \in {j \in 1..Len(frame) : ~frame[j].week_start.nat}}

WeekData(frame, w) == SelectSeq(frame, LAMBDA r : ~r.week_start.nat /\ r.week_start.day = w)

\* groupby('day_of_week') of one week's rows.
DayKeys(week_data) == {week_data[i].day_of_week.v : i \in {j \in 1..Len(week_data) : ~week_data[j].day_of_week.nan}}

DayData(week_data, d) == SelectSeq(week_data, LAMBDA r : ~r.day_of_week.nan /\ r.day_of_week.v = d)

\* Lines 246-248: the day lists of one week, each as line 248 can sort it.
WeeklySessions(week_data) ==
    { ws \in [DayKeys(week_data) ->
                UNION {SortValues(DayData(week_data, d)) : d \in DayKeys(week_data)}] :
        \A d \in DayKeys(week_data) : ws[d] \in SortValues(DayData(week_data, d)) }

\* Lines 244-248: the dictionaries the loops over the groups can build.
GroupByWeek(frame) ==
    { g \in [WeekKeys(frame) ->
               UNION {WeeklySessions(WeekData(frame, w)) : w \in WeekKeys(frame)}] :
        \A w \in WeekKeys(frame) : g[w] \in WeeklySessions(WeekData(frame, w)) }

\* Faulty variant of SortedSeq: the keys in descending order.
RECURSIVE SortedDescending(_)
SortedDescending(S) ==
    IF S = {} THEN <<>>
    ELSE LET m == CHOOSE x \in S : \A y \in S : x >= y
         IN  <<m>> \o SortedDescending(S \ {m})

\* sorted(keys): the keys in ascending order.
RECURSIVE SortedSeq(_)
SortedSeq(S) ==
    IF S = {} THEN <<>>
    ELSE LET m == CHOOSE x \in S : \A y \in S : x <= y
         IN  <<m>> \o SortedSeq(S \ {m})

----------------------------------------------------------------------------
(* create_weekly_timeline *)

start_hour == 7

\* timestamp.hour and timestamp.minute
HourOf(ts) == ts.sec \div 3600

MinuteOf(ts) == (ts.sec % 3600) \div 60

\* hour + minute / 60 (lines 148 and 194), in minutes.  The seconds of the
\* timestamp do not enter.
StartHourPos(ts) == 60 * HourOf(ts) + MinuteOf(ts)

\* session_start_hour + duration_minutes / 60 (line 149), in minutes.
SessionEndHour(session) == StartHourPos(session.timestamp) + session.duration_minutes

\* Faulty variant of LatestOverSessions: the end assigned, not maximised.
RECURSIVE LatestOverSessionsAssign(_, _)
LatestOverSessionsAssign(sessions, latest) ==
    IF sessions = <<>> THEN latest
    ELSE LatestOverSessionsAssign(Tail(sessions), SessionEndHour(Head(sessions)))

\* Lines 147-150: the inner loop over one day's sessions.
RECURSIVE LatestOverSessions(_, _)
LatestOverSessions(sessions, latest) ==
    IF sessions = <<>> THEN latest
    ELSE LatestOverSessions(Tail(sessions), Max(latest, SessionEndHour(Head(sessions))))

\* Lines 145-150: the loop over day_idx in range(7), from day_idx on.
RECURSIVE LatestOverDays(_, _, _)
LatestOverDays(weekly_sessions, day_idx, latest) ==
    IF day_idx > 6 THEN latest
    ELSE IF day_idx \in DOMAIN weekly_sessions
         THEN LatestOverDays(weekly_sessions, day_idx + 1,
                             LatestOverSessions(weekly_sessions[day_idx], latest))
         ELSE LatestOverDays(weekly_sessions, day_idx + 1, latest)

\* Faulty variants of LatestEndHour: without the cap at 24, without the padding.
LatestEndHourUncapped(weekly_sessions) ==
    LatestOverDays(weekly_sessions, 0, 60 * start_hour) + 30

LatestEndHourUnpadded(weekly_sessions) ==
    Min(24 * 60, LatestOverDays(weekly_sessions, 0, 60 * start_hour))

\* Lines 141-153: latest_end_hour after the padding, in minutes.
LatestEndHour(weekly_sessions) ==
    Min(24 * 60, LatestOverDays(weekly_sessions, 0, 60 * start_hour) + 30)

\* f"{n:02x}"
HexDigits == <<"0", "1", "2", "3", "4", "5", "6", "7", "8", "9", "a", "b", "c", "d", "e", "f">>

Hex2(n) == <<HexDigits[(n \div 16) + 1], HexDigits[(n % 16) + 1]>>

\* int(a + (b - a) * ratio) with ratio = i / (n - 1), n > 1 (lines 182-186).
\* The operands are non-negative, so int() is the floor.
Channel(a, b, i, n) == (a * (n - 1) + (b - a) * i) \div (n - 1)

\* Line 187.
GradientColor(i, n) ==
    <<"#">> \o Hex2(Channel(184, 238, i, n)) \o Hex2(Channel(242, 187, i, n))
            \o Hex2(Channel(230, 238, i, n))

LightTeal == <<"#", "b", "8", "f", "2", "e", "6">>

\* Lines 175-187: colors, a list over ALL the sessions of the day.
Colors(num_sessions) ==
    IF num_sessions = 1 THEN <<LightTeal>>
    ELSE [k \in 1..num_sessions |-> GradientColor(k - 1, num_sessions)]

\* Faulty variant of SessionName: names over 15 characters are shortened.
SessionNameOver15(task_name) ==
    IF Len(task_name) > 15 THEN SubSeq(task_name, 1, 15) \o <<".", ".", ".">>
    ELSE task_name

\* Lines 209-211.
SessionName(task_name) ==
    IF Len(task_name) > 18 THEN SubSeq(task_name, 1, 15) \o <<".", ".", ".">>
    ELSE task_name

\* Lines 190-216: the rectangle and the label drawn for the session at
\* position i (from 0) of sessions_for_day.
Block(session, i, colors) ==
    [y |-> StartHourPos(session.timestamp),
     height |-> session.duration_minutes,
     facecolor |-> colors[(i % Len(colors)) + 1],
     label |-> SessionName(session.task_name),
     src |-> session.src]

\* Faulty variant of Skipped: a session at 07:00 is skipped too.
SkippedAtSeven(session) == StartHourPos(session.timestamp) <= 60 * start_hour

\* Line 197: the test that skips a session.
Skipped(session) == StartHourPos(session.timestamp) < 60 * start_hour

\* Lines 189-216: the loop over enumerate(sessions_for_day), from position i on.
RECURSIVE DrawSessions(_, _, _)
DrawSessions(sessions_for_day, i, colors) ==
    IF i >= Len(sessions_for_day) THEN <<>>
    ELSE IF Skipped(sessions_for_day[i + 1])
         THEN DrawSessions(sessions_for_day, i + 1, colors)
         ELSE <<Block(sessions_for_day[i + 1], i, colors)>>
              \o DrawSessions(sessions_for_day, i + 1, colors)

\* Line 172 for every day of the week: the day lists as sort_values can
\* return them.
SortedDays(weekly_sessions) ==
    { sd \in [DOMAIN weekly_sessions ->
                UNION {SortValues(weekly_sessions[d]) : d \in DOMAIN weekly_sessions}] :
        \A d \in DOMAIN weekly_sessions : sd[d] \in SortValues(weekly_sessions[d]) }

\* Lines 171-216, sorted_days[day_idx] being the sessions_for_day of line 172.
DayBlocks(sorted_days, day_idx) ==
    IF day_idx \in DOMAIN sorted_days
    THEN LET sessions_for_day == sorted_days[day_idx]
         IN  DrawSessions(sessions_for_day, 0, Colors(Len(sessions_for_day)))
    ELSE <<>>

\* Faulty variant of DailyTotal: the sum over the drawn rectangles only.
DailyTotalRendered(weekly_sessions, day_idx) ==
    SumSeq([k \in 1..Len(DayBlocks(weekly_sessions, day_idx)) |->
               DayBlocks(weekly_sessions, day_idx)[k].height])

\* Faulty variant of DailyTotal: a day without a list has no total.
DailyTotalOfListedDay(weekly_sessions, day_idx) ==
    IF day_idx \in DOMAIN weekly_sessions
    THEN SumSeq([k \in 1..Len(weekly_sessions[day_idx]) |->
                    weekly_sessions[day_idx][k].duration_minutes])
    ELSE -1

\* Lines 219-221, in minutes.
DailyTotal(weekly_sessions, day_idx) ==
    IF day_idx \in DOMAIN weekly_sessions
    THEN SumSeq([k \in 1..Len(weekly_sessions[day_idx]) |->
                    weekly_sessions[day_idx][k].duration_minutes])
    ELSE 0

\* Lines 156-233: one of the seven axes.  ylim is (bottom, top) of the
\* inverted axis, set_ylim(latest_end_hour, start_hour).
Axis(weekly_sessions, sorted_days, day_idx, latest_end_hour) ==
    [ylim |-> <<latest_end_hour, 60 * start_hour>>,
     blocks |-> DayBlocks(sorted_days, day_idx),
     daily_total |-> DailyTotal(weekly_sessions, day_idx)]

\* Lines 128-237: the figures the call can return, one for each way line 172
\* can order the sessions of equal timestamp.
create_weekly_timeline(weekly_sessions, week_start_date) ==
    LET latest_end_hour == LatestEndHour(weekly_sessions)
    IN  { [week_start |-> week_start_date,
           axes |-> [day_idx \in 0..6 |->
                       Axis(weekly_sessions, sorted_days, day_idx, latest_end_hour)]] :
          sorted_days \in SortedDays(weekly_sessions) }

----------------------------------------------------------------------------
(* generate_html_report *)

\* The year, month and day of the month of day number d (day 0 is
\* 2024-01-01, day 19723 of the epoch) in the proleptic Gregorian calendar
\* that datetime uses.
Civil(d) ==
    LET z == d + 19723 + 719468
        era == z \div 146097
        doe == z - era * 146097
        yoe == (doe - doe \div 1460 + doe \div 36524 - doe \div 146096) \div 365
        doy == doe - (365 * yoe + yoe \div 4 - yoe \div 100)
        mp == (5 * doy + 2) \div 153
        m == IF mp < 10 THEN mp + 3 ELSE mp - 9
    IN  [year |-> yoe + era * 400 + (IF m <= 2 THEN 1 ELSE 0),
         month |-> m,
         day |-> doy - (153 * mp + 2) \div 5 + 1]

\* date.strftime('%Y_%m_%d'): the year in four digits, the month and the day
\* in two.
Digits == <<"0", "1", "2", "3", "4", "5", "6", "7", "8", "9">>

Dec2(n) == <<Digits[((n \div 10) % 10) + 1], Digits[(n % 10) + 1]>>

Dec4(n) == Dec2(n \div 100) \o Dec2(n)

\* Faulty variant of Strftime: the day first, '%d_%m_%Y'.
StrftimeDayFirst(d) ==
    Dec2(Civil(d).day) \o <<"_">> \o Dec2(Civil(d).month) \o <<"_">> \o Dec4(Civil(d).year)

Strftime(d) ==
    Dec4(Civil(d).year) \o <<"_">> \o Dec2(Civil(d).month) \o <<"_">> \o Dec2(Civil(d).day)

\* Line 268.
Filename(week_start) ==
    <<"w", "e", "e", "k", "_">> \o Strftime(week_start) \o <<".", "p", "n", "g">>

\* Lines 274-277.
TotalWeeklyMinutes(weekly_sessions) ==
    SumSeq([k \in 1..7 |-> DailyTotal(weekly_sessions, k - 1)])

TotalSessions(weekly_sessions) ==
    SumSeq([k \in 1..7 |-> IF (k - 1) \in DOMAIN weekly_sessions
                            THEN Len(weekly_sessions[k - 1]) ELSE 0])

\* The quotient n / d of two numbers, kept as the pair.  The numerators of
\* lines 422 and 426 are numpy numbers: a division by 0 raises nothing and
\* gives inf (nan for 0 / 0), which the document then shows.
Quotient(n, d) == [num |-> n, den |-> d]

\* Line 418, in minutes.
TotalMinutes(frame) == SumSeq([k \in 1..Len(frame) |-> frame[k].duration_minutes])

\* Faulty variant of AvgSession: the mean in minutes.
AvgSessionInMinutes(frame) == Quotient(TotalMinutes(frame), Len(frame))

\* Line 422: df['duration_minutes'].mean() / 60, a number of hours.
AvgSession(frame) == Quotient(TotalMinutes(frame), 60 * Len(frame))

\* Line 426: df['duration_minutes'].sum() / 60 / len(sorted_weeks).
AvgHoursPerWeek(frame, weeks) == Quotient(TotalMinutes(frame), 60 * Len(weeks))

\* Lines 406-430 and 433-463: what the index document shows, before the
\* numbers are rounded for display.
IndexDocument(frame, weeks, files) ==
    [weeks_tracked |-> Len(weeks),
     total_sessions |-> Len(frame),
     total_minutes |-> TotalMinutes(frame),
     avg_session |-> AvgSession(frame),
     avg_hours_per_week |-> AvgHoursPerWeek(frame, weeks),
     entries |-> files]

NoDocument ==
    [weeks_tracked |-> -1, total_sessions |-> -1, total_minutes |-> -1,
     avg_session |-> Quotient(0, 1), avg_hours_per_week |-> Quotient(0, 1),
     entries |-> <<>>]

----------------------------------------------------------------------------
(* show_analysis.py: texts and files.  A text is [kind, run]: the kind of  *)
(* text and the run_analysis call that produced it.                        *)

\* No file of that name in output_dir.
Absent == [kind |-> "absent", run |-> 0]

\* The empty string.
EmptyText == [kind |-> "empty", run |-> 0]

\* 'AI analysis not available. Make sure you have set up the Gemini API key.'
Placeholder == [kind |-> "placeholder", run |-> 0]

\* response.text of the generate_content call of run n.
ResponseText(n) == [kind |-> "response", run |-> n]

\* '# Gemini Report Generation Failed ... Error: {e} ...' written by run n.
FailedText(n) == [kind |-> "failed", run |-> n]

\* No focus_report.html in output_dir.
NoReport == [run |-> 0, ai |-> EmptyText]

\* run_analysis has not been called.
AnalysisIdle ==
    /\ GEMINI_AVAILABLE = TRUE
    /\ apc = "idle"
    /\ run = 0
    /\ gemini_insights = Absent
    /\ gemini_result = "none"
    /\ html_content = EmptyText
    /\ focus_report = NoReport
    /\ browser_opened = FALSE
    /\ returned = "none"

----------------------------------------------------------------------------
(* main() *)

Init ==
    /\ csv_exists \in BOOLEAN
    /\ rows \in (IF csv_exists THEN CsvFiles ELSE {<<>>})
    /\ pc = "main"
    /\ df = <<>>
    /\ weekly_sessions_dict = <<>>
    /\ sorted_weeks = <<>>
    /\ week_idx = 0
    /\ figs = <<>>
    /\ saved = <<>>
    /\ timeline_files = <<>>
    /\ html = NoDocument
    /\ AnalysisIdle

\* Lines 484-487.
SourceMissing ==
    /\ pc = "main"
    /\ ~csv_exists
    /\ pc' = "missing"
    /\ UNCHANGED <<csv_exists, rows, df, weekly_sessions_dict, sorted_weeks, week_idx,
                   figs, saved, timeline_files, html>>
    /\ UNCHANGED analysisVars

\* Line 490, when pd.to_datetime raises: nothing in load_session_data or main
\* catches the ValueError, and main ends with it.
LoadRaises ==
    /\ pc = "main"
    /\ csv_exists
    /\ ToDatetimeRaises(rows)
    /\ pc' = "raised"
    /\ UNCHANGED <<csv_exists, rows, df, weekly_sessions_dict, sorted_weeks, week_idx,
                   figs, saved, timeline_files, html>>
    /\ UNCHANGED analysisVars

\* Lines 490-494.
LoadSessionData ==
    /\ pc = "main"
    /\ csv_exists
    /\ ~ToDatetimeRaises(rows)
    /\ df' = load_session_data(rows)
    /\ pc' = IF df' = <<>> THEN "nodata" ELSE "loaded"
    /\ UNCHANGED <<csv_exists, rows, weekly_sessions_dict, sorted_weeks, week_idx,
                   figs, saved, timeline_files, html>>
    /\ UNCHANGED analysisVars

\* Lines 241-259.
GroupSessions ==
    /\ pc = "loaded"
    /\ weekly_sessions_dict' \in GroupByWeek(df)
    /\ sorted_weeks' = SortedSeq(DOMAIN weekly_sessions_dict')
    /\ week_idx' = 1
    /\ pc' = "weeks"
    /\ UNCHANGED <<csv_exists, rows, df, figs, saved, timeline_files, html>>
    /\ UNCHANGED analysisVars

\* Faulty variant of LoopDone: the loop ends before the last week.
LoopDoneBeforeLast(idx, weeks) == idx >= Len(weeks)

\* Line 261: the for loop over sorted_weeks has passed the last week.
LoopDone(idx, weeks) == idx > Len(weeks)

\* Lines 261-279: one turn of the loop over sorted_weeks.
RenderWeek ==
    /\ pc = "weeks"
    /\ ~LoopDone(week_idx, sorted_weeks)
    /\ LET week_start == sorted_weeks[week_idx]
           weekly_sessions == weekly_sessions_dict[week_start]
           filename == Filename(week_start)
       IN  /\ \E fig \in create_weekly_timeline(weekly_sessions, week_start) :
                 figs' = Append(figs, fig)
           /\ saved' = Append(saved, filename)
           /\ timeline_files' = Append(timeline_files,
                                       [week_start |-> week_start,
                                        filename |-> filename,
                                        total_weekly_minutes |-> TotalWeeklyMinutes(weekly_sessions),
                                        total_sessions |-> TotalSessions(weekly_sessions)])
    /\ week_idx' = week_idx + 1
    /\ UNCHANGED <<csv_exists, rows, pc, df, weekly_sessions_dict, sorted_weeks, html>>
    /\ UNCHANGED analysisVars

\* Lines 262-270 when plt.savefig raises (an I/O or resource failure): the
\* figure was made, the file was not written, and no try statement of
\* generate_html_report or main catches the exception.
SaveRaises ==
    /\ pc = "weeks"
    /\ ~LoopDone(week_idx, sorted_weeks)
    /\ LET week_start == sorted_weeks[week_idx]
       IN  \E fig \in create_weekly_timeline(weekly_sessions_dict[week_start], week_start) :
               figs' = Append(figs, fig)
    /\ pc' = "save_raised"
    /\ UNCHANGED <<csv_exists, rows, df, weekly_sessions_dict, sorted_weeks, week_idx,
                   saved, timeline_files, html>>
    /\ UNCHANGED analysisVars

\* Lines 282-476.
WriteIndex ==
    /\ pc = "weeks"
    /\ LoopDone(week_idx, sorted_weeks)
    /\ html' = IndexDocument(df, sorted_weeks, timeline_files)
    /\ pc' = "written"
    /\ UNCHANGED <<csv_exists, rows, df, weekly_sessions_dict, sorted_weeks, week_idx,
                   figs, saved, timeline_files>>
    /\ UNCHANGED analysisVars

\* Lines 502-507.
OpenBrowser ==
    /\ pc = "written"
    /\ pc' = "done"
    /\ UNCHANGED <<csv_exists, rows, df, weekly_sessions_dict, sorted_weeks, week_idx,
                   figs, saved, timeline_files, html>>
    /\ UNCHANGED analysisVars

Next ==
    \/ SourceMissing
    \/ LoadRaises
    \/ LoadSessionData
    \/ GroupSessions
    \/ RenderWeek
    \/ SaveRaises
    \/ WriteIndex
    \/ OpenBrowser

Spec == Init /\ [][Next]_vars

----------------------------------------------------------------------------
(* create_weekly_timeline called on its own: the argument is any week of    *)
(* any loaded file, a week with no day at all, or a week whose seven day    *)
(* lists are empty.                                                         *)

EmptyWeek == <<>>

EmptyDaysWeek == [day_idx \in 0..6 |-> <<>>]

TimelineArguments ==
    {EmptyWeek, EmptyDaysWeek} \cup
    UNION { UNION { {g[w] : w \in DOMAIN g} : g \in GroupByWeek(load_session_data(file)) } :
            file \in {f \in CsvFiles : ~ToDatetimeRaises(f)} }

InitTimeline ==
    /\ csv_exists = FALSE
    /\ rows = <<>>
    /\ pc = "call"
    /\ df = <<>>
    /\ \E weekly_sessions \in TimelineArguments, week_start \in {1} :
          weekly_sessions_dict = [w \in {week_start} |-> weekly_sessions]
    /\ sorted_weeks = <<1>>
    /\ week_idx = 1
    /\ figs = <<>>
    /\ saved = <<>>
    /\ timeline_files = <<>>
    /\ html = NoDocument
    /\ AnalysisIdle

CallCreateWeeklyTimeline ==
    /\ pc = "call"
    /\ \E fig \in create_weekly_timeline(weekly_sessions_dict[sorted_weeks[1]], sorted_weeks[1]) :
          figs' = <<fig>>
    /\ pc' = "returned"
    /\ UNCHANGED <<csv_exists, rows, df, weekly_sessions_dict, sorted_weeks, week_idx,
                   saved, timeline_files, html>>
    /\ UNCHANGED analysisVars

NextTimeline == CallCreateWeeklyTimeline

SpecTimeline == InitTimeline /\ [][NextTimeline]_vars

----------------------------------------------------------------------------
(* The filename of line 268 on its own: the weeks are any one or two       *)
(* week_start dates, Tuesdays up to MaxWeek weeks before or after day 1.   *)

WeekStartDates == {1 + 7 * k : k \in -MaxWeek..MaxWeek}

InitFilename ==
    /\ csv_exists = FALSE
    /\ rows = <<>>
    /\ pc = "name"
    /\ df = <<>>
    /\ weekly_sessions_dict = <<>>
    /\ \E a, b \in WeekStartDates : sorted_weeks = SortedSeq({a, b})
    /\ week_idx = 1
    /\ figs = <<>>
    /\ saved = <<>>
    /\ timeline_files = <<>>
    /\ html = NoDocument
    /\ AnalysisIdle

\* Line 268, for the week at week_idx.
NameWeek ==
    /\ pc = "name"
    /\ week_idx <= Len(sorted_weeks)
    /\ saved' = Append(saved, Filename(sorted_weeks[week_idx]))
    /\ week_idx' = week_idx + 1
    /\ UNCHANGED <<csv_exists, rows, pc, df, weekly_sessions_dict, sorted_weeks,
                   figs, timeline_files, html>>
    /\ UNCHANGED analysisVars

NextFilename == NameWeek

SpecFilename == InitFilename /\ [][NextFilename]_vars

----------------------------------------------------------------------------
(* show_analysis.run_analysis, called up to MaxRuns times.  output_dir is  *)
(* the same directory in every call (tempdir/focus_insights/latest), so    *)
(* the files of one call are there in the next.  Whether a step raises is  *)
(* the environment's choice.                                               *)

InitAnalysis ==
    /\ csv_exists = FALSE
    /\ rows = <<>>
    /\ pc = "idle"
    /\ df = <<>>
    /\ weekly_sessions_dict = <<>>
    /\ sorted_weeks = <<>>
    /\ week_idx = 0
    /\ figs = <<>>
    /\ saved = <<>>
    /\ timeline_files = <<>>
    /\ html = NoDocument
    /\ GEMINI_AVAILABLE \in BOOLEAN
    /\ apc = "idle"
    /\ run = 0
    /\ gemini_insights = Absent
    /\ gemini_result = "none"
    /\ html_content = EmptyText
    /\ focus_report = NoReport
    /\ browser_opened = FALSE
    /\ returned = "none"

\* show_analysis.py lines 472-477: a call of run_analysis; os.makedirs
\* raises or not.  main() calls run_analysis once, so a call is a run of the
\* program and visualize_logs is imported anew (lines 23-35 there).
RunAnalysis ==
    /\ apc \in {"idle", "returned"}
    /\ run < MaxRuns
    /\ run' = run + 1
    /\ GEMINI_AVAILABLE' \in BOOLEAN
    /\ gemini_result' = "none"
    /\ html_content' = EmptyText
    /\ browser_opened' = FALSE
    /\ \E raises \in BOOLEAN :
          /\ apc' = IF raises THEN "returned" ELSE "started"
          /\ returned' = IF raises THEN "None" ELSE "none"
    /\ UNCHANGED <<gemini_insights, focus_report>>
    /\ UNCHANGED timelineVars

\* Lines 480-487: load_and_clean_data, create_visualizations and
\* generate_insights_report; an exception of any of them is caught at line
\* 514 and run_analysis returns None.
PrepareReports ==
    /\ apc = "started"
    /\ \E raises \in BOOLEAN :
          /\ apc' = IF raises THEN "returned" ELSE "prepared"
          /\ returned' = IF raises THEN "None" ELSE "none"
    /\ UNCHANGED <<GEMINI_AVAILABLE, run, gemini_insights, gemini_result, html_content,
                   focus_report, browser_opened>>
    /\ UNCHANGED timelineVars

\* visualize_logs.py lines 242-311, the ways generate_gemini_report ends:
\*   "skipped"  GEMINI_AVAILABLE is False: returns False, writes nothing;
\*   "raised"   genai.configure, the prompt or GenerativeModel raises,
\*              outside the try statement: writes nothing;
\*   "failed"   generate_content or response.text raises: the except block
\*              writes the failure text to gemini_insights.md;
\*   "ok"       response.text is written to gemini_insights.md.
GeminiOutcomes == IF GEMINI_AVAILABLE THEN {"raised", "failed", "ok"} ELSE {"skipped"}

\* show_analysis.py lines 489-494: the call, inside try/except Exception.
GenerateGeminiReport ==
    /\ apc = "prepared"
    /\ \E outcome \in GeminiOutcomes :
          /\ gemini_result' = outcome
          /\ gemini_insights' =
                CASE outcome = "ok" -> ResponseText(run)
                  [] outcome = "failed" -> FailedText(run)
                  [] OTHER -> gemini_insights
    /\ apc' = "generated"
    /\ UNCHANGED <<GEMINI_AVAILABLE, run, html_content, focus_report, browser_opened,
                   returned>>
    /\ UNCHANGED timelineVars

\* show_analysis.py lines 100-107 and 343, 377-380: the AI text of the
\* report.  read_file_content returns the file's text, or the default when
\* open or read raises IOError/OSError; the default is the placeholder when
\* the file exists (has_gemini) and the empty string when it does not.
AiContent(file, readable) ==
    IF file = Absent THEN EmptyText
    ELSE IF readable THEN file
    ELSE Placeholder

\* show_analysis.py line 497: generate_html_report(output_dir); it raises
\* (caught at line 514) or returns the page.
GenerateHtmlReport ==
    /\ apc = "generated"
    /\ \E raises \in BOOLEAN, readable \in BOOLEAN :
          /\ apc' = IF raises THEN "returned" ELSE "built"
          /\ returned' = IF raises THEN "None" ELSE "none"
          /\ html_content' = IF raises THEN html_content
                             ELSE AiContent(gemini_insights, readable)
    /\ UNCHANGED <<GEMINI_AVAILABLE, run, gemini_insights, gemini_result, focus_report,
                   browser_opened>>
    /\ UNCHANGED timelineVars

\* Faulty variant of SaveReport: a write that raises is passed over and
\* run_analysis goes on.
SaveReportUnchecked ==
    /\ apc = "built"
    /\ \E raises \in BOOLEAN :
          focus_report' = IF raises THEN focus_report
                          ELSE [run |-> run, ai |-> html_content]
    /\ apc' = "saved"
    /\ UNCHANGED <<GEMINI_AVAILABLE, run, gemini_insights, gemini_result, html_content,
                   browser_opened, returned>>
    /\ UNCHANGED timelineVars

\* show_analysis.py lines 500-502: focus_report.html is written, or the
\* write raises.
SaveReport ==
    /\ apc = "built"
    /\ \E raises \in BOOLEAN :
          /\ apc' = IF raises THEN "returned" ELSE "saved"
          /\ returned' = IF raises THEN "None" ELSE "none"
          /\ focus_report' = IF raises THEN focus_report
                             ELSE [run |-> run, ai |-> html_content]
    /\ UNCHANGED <<GEMINI_AVAILABLE, run, gemini_insights, gemini_result, html_content,
                   browser_opened>>
    /\ UNCHANGED timelineVars

\* show_analysis.py lines 505-511: the browser is opened and the path of
\* the report is returned.  (webbrowser.open reports a failure by returning
\* False, which run_analysis does not look at.)
OpenReport ==
    /\ apc = "saved"
    /\ browser_opened' = TRUE
    /\ returned' = "html_path"
    /\ apc' = "returned"
    /\ UNCHANGED <<GEMINI_AVAILABLE, run, gemini_insights, gemini_result, html_content,
                   focus_report>>
    /\ UNCHANGED timelineVars

NextAnalysis ==
    \/ RunAnalysis
    \/ PrepareReports
    \/ GenerateGeminiReport
    \/ GenerateHtmlReport
    \/ SaveReport
    \/ OpenReport

SpecAnalysis == InitAnalysis /\ [][NextAnalysis]_vars

----------------------------------------------------------------------------
(* Vocabulary of the properties *)

\* The positions of the records of a frame that have a timestamp.
Stamped(frame) == {i \in 1..Len(frame) : ~frame[i].timestamp.nat}

\* main() has returned from load_session_data.
Loaded == pc \in {"nodata", "loaded", "weeks", "save_raised", "written", "done"}

\* A row of the file whose duration is not a number, is zero or negative, or
\* whose task name is empty.
RowInvalid(r) == ~r.duration.num \/ r.duration.v <= 0 \/ r.task_name = <<>>

InvalidSrc == {i \in 1..Len(rows) : RowInvalid(rows[i])}

ValidSrc == (1..Len(rows)) \ InvalidSrc

RECURSIVE SumDurations(_)
SumDurations(S) ==
    IF S = {} THEN 0
    ELSE LET i == CHOOSE x \in S : TRUE
         IN  rows[i].duration.v + SumDurations(S \ {i})

\* The file rows held by the frame, by the week buckets and by the figures.
FrameSrc == {df[i].src : i \in 1..Len(df)}

BucketSrc(w, d) == {weekly_sessions_dict[w][d][k].src : k \in 1..Len(weekly_sessions_dict[w][d])}

GroupedSrc ==
    UNION { UNION { BucketSrc(w, d) : d \in DOMAIN weekly_sessions_dict[w] } :
            w \in DOMAIN weekly_sessions_dict }

BlocksOf(fig, d) == fig.axes[d].blocks

DrawnSrc ==
    UNION { UNION { {BlocksOf(figs[f], d)[k].src : k \in 1..Len(BlocksOf(figs[f], d))} :
                    d \in 0..6 } : f \in 1..Len(figs) }

\* The rows of the frame that fall in week w, and on weekday d of it.
WeekSrc(w) == {df[i].src : i \in {j \in Stamped(df) : df[j].week_start.day = w}}

DaySrc(w, d) ==
    {df[i].src : i \in {j \in Stamped(df) : df[j].week_start.day = w /\ df[j].day_of_week.v = d}}

----------------------------------------------------------------------------
(* C1 - C5: load_session_data *)

\* C1: for every record with a timestamp that load_session_data returns,
\* week_start is a Monday, the Monday on or before the record's date.
C1_WeekStartIsMonday ==
    Loaded =>
        \A i \in Stamped(df) :
            /\ ~df[i].week_start.nat
            /\ df[i].week_start.day % 7 = 0
            /\ df[i].week_start.day <= df[i].date.day
            /\ df[i].date.day - df[i].week_start.day <= 6

\* C2: for every record with a timestamp that load_session_data returns, the
\* date lies inside the record's own week: week_start <= date <= week_start + 6.
C2_DateInsideOwnWeek ==
    Loaded =>
        \A i \in Stamped(df) :
            /\ ~df[i].week_start.nat /\ ~df[i].date.nat
            /\ df[i].week_start.day <= df[i].date.day
            /\ df[i].date.day <= df[i].week_start.day + 6

\* A record dated on the last day of its week and one dated on the first.
C2_Witness ==
    /\ pc = "loaded"
    /\ \E i \in Stamped(df) : df[i].date.day = df[i].week_start.day + 6
    /\ \E i \in Stamped(df) : df[i].date.day = df[i].week_start.day

\* C3: for every record with a timestamp, day_of_week is the number of days
\* from week_start to the record's date.
C3_DayOfWeekMatchesWeekStart ==
    Loaded =>
        \A i \in Stamped(df) :
            /\ ~df[i].day_of_week.nan
            /\ df[i].day_of_week.v = df[i].date.day - df[i].week_start.day

\* C4: a row whose duration is non-numeric, zero or negative, or whose task
\* name is empty, is in no frame, week bucket or rectangle, and the document's,
\* the weeks' and the days' totals and session counts are the sums over the
\* other rows alone.
C4_InvalidRowsExcluded ==
    /\ InvalidSrc \cap (FrameSrc \cup GroupedSrc \cup DrawnSrc) = {}
    /\ pc \in {"written", "done"} =>
          /\ html.total_sessions = Cardinality(ValidSrc)
          /\ html.total_minutes = SumDurations(ValidSrc)
    /\ \A k \in 1..Len(timeline_files) :
          /\ timeline_files[k].total_sessions =
                Cardinality(WeekSrc(timeline_files[k].week_start) \ InvalidSrc)
          /\ timeline_files[k].total_weekly_minutes =
                SumDurations(WeekSrc(timeline_files[k].week_start) \ InvalidSrc)
    /\ \A f \in 1..Len(figs) : \A d \in 0..6 :
          figs[f].axes[d].daily_total = SumDurations(DaySrc(figs[f].week_start, d) \ InvalidSrc)

\* A finished report of a file that holds an invalid row and a drawn session.
C4_Witness ==
    /\ pc = "done"
    /\ InvalidSrc # {}
    /\ DrawnSrc # {}
    /\ ValidSrc # {}

\* C5: a row whose timestamp is not in the format is dropped and main() goes
\* on with the other rows: load_session_data never raises, and every record it
\* returns comes from a row whose timestamp parsed.
C5_BadTimestampRowDropped ==
    /\ pc # "raised"
    /\ Loaded => \A i \in 1..Len(df) : rows[df[i].src].timestamp.fmt = "ok"

----------------------------------------------------------------------------
(* C6 - C10: create_weekly_timeline *)

\* The week a figure was made from, and all its sessions.
WeekOf(fig) == weekly_sessions_dict[fig.week_start]

SessionsOf(fig) == UNION { Range(WeekOf(fig)[d]) : d \in DOMAIN WeekOf(fig) }

\* The start of a session within its day and its end, in minutes: the hour and
\* the minute of the timestamp, without its seconds.
StartMinute(session) == session.timestamp.sec \div 60

EndMinute(session) == StartMinute(session) + session.duration_minutes

\* end_hour of a figure, the same on its seven axes by C8.
EndHour(fig) == fig.axes[0].ylim[1]

\* C6: for any week given to create_weekly_timeline, on every axis
\* start_hour = 7 and start_hour <= end_hour <= 24.
C6_AxisBounds ==
    \A f \in 1..Len(figs) : \A d \in 0..6 :
        /\ figs[f].axes[d].ylim[2] = 7 * 60
        /\ figs[f].axes[d].ylim[2] <= figs[f].axes[d].ylim[1]
        /\ figs[f].axes[d].ylim[1] <= 24 * 60

\* A week with a session that starts before 07:00 and one that runs past
\* midnight.
C6_Witness ==
    /\ pc = "returned"
    /\ \E s \in SessionsOf(figs[1]) : StartMinute(s) < 7 * 60
    /\ \E s \in SessionsOf(figs[1]) : EndMinute(s) > 24 * 60

\* C7 as claimed: for a week with no session on any of the seven days,
\* end_hour equals start_hour (7), without padding.
C7_EmptyWeekEndsAtStartHour ==
    \A f \in 1..Len(figs) :
        SessionsOf(figs[f]) = {} => \A d \in 0..6 : figs[f].axes[d].ylim[1] = 7 * 60

\* C7 as amended: for a week with no session on any of the seven days,
\* end_hour is start_hour plus the half-hour padding, 7.5.
C7_EmptyWeekEndsAtPaddedStartHour ==
    \A f \in 1..Len(figs) :
        SessionsOf(figs[f]) = {} => \A d \in 0..6 : figs[f].axes[d].ylim[1] = 7 * 60 + 30

\* The call has returned for a week without any day list.
C7_Witness ==
    /\ pc = "returned"
    /\ DOMAIN WeekOf(figs[1]) = {}
    /\ Len(figs) = 1

\* C8: for a week with at least one session, end_hour = min(24, max(7, M) + 0.5)
\* with M the greatest start + duration over the sessions of all seven days,
\* those starting before 07:00 included, and the seven axes share it.
C8_EndHourFormula ==
    \A f \in 1..Len(figs) :
        SessionsOf(figs[f]) # {} =>
            LET M == CHOOSE m \in {EndMinute(s) : s \in SessionsOf(figs[f])} :
                        \A s \in SessionsOf(figs[f]) : EndMinute(s) <= m
            IN  \A d \in 0..6 :
                    figs[f].axes[d].ylim[1] = Min(24 * 60, Max(7 * 60, M) + 30)

\* A week of two days whose latest end, after 07:00 and before midnight,
\* belongs to a session that starts before 07:00 on the earlier day.
C8_Witness ==
    \E f \in 1..Len(figs) :
        /\ Cardinality(DOMAIN WeekOf(figs[f])) = 2
        /\ \E s \in SessionsOf(figs[f]) :
              /\ StartMinute(s) < 7 * 60
              /\ EndMinute(s) > 7 * 60
              /\ EndHour(figs[f]) = EndMinute(s) + 30
              /\ \E t \in SessionsOf(figs[f]) : t.date.day > s.date.day

Anchor1 == <<"#", "b", "8", "f", "2", "e", "6">>

Anchor2 == <<"#", "e", "e", "b", "b", "e", "e">>

\* C9: on every day, a single rendered session has the colour anchor-1, and of
\* n > 1 rendered sessions the first has anchor-1 and the last anchor-2.
C9_ColorByRenderedRank ==
    \A f \in 1..Len(figs) : \A d \in 0..6 :
        LET blocks == BlocksOf(figs[f], d)
        IN  /\ Len(blocks) >= 1 => blocks[1].facecolor = Anchor1
            /\ Len(blocks) > 1 => blocks[Len(blocks)].facecolor = Anchor2

\* C10: every session of a day that starts at or after 07:00 has exactly one
\* rectangle, at its start within the day and as high as its duration; a
\* session that starts before 07:00 has no rectangle and no label; there are
\* no other rectangles.
C10_OneRectanglePerLateSession ==
    \A f \in 1..Len(figs) : \A d \in 0..6 :
        LET blocks == BlocksOf(figs[f], d)
            sessions == IF d \in DOMAIN WeekOf(figs[f]) THEN WeekOf(figs[f])[d] ELSE <<>>
            Of(s) == {k \in 1..Len(blocks) : blocks[k].src = s.src}
        IN  /\ \A i \in 1..Len(sessions) :
                  IF StartMinute(sessions[i]) >= 7 * 60
                  THEN /\ Cardinality(Of(sessions[i])) = 1
                       /\ \A k \in Of(sessions[i]) :
                             /\ blocks[k].y = StartMinute(sessions[i])
                             /\ blocks[k].height = sessions[i].duration_minutes
                  ELSE Of(sessions[i]) = {}
            /\ \A k \in 1..Len(blocks) : \E i \in 1..Len(sessions) : blocks[k].src = sessions[i].src

\* A day with a session before 07:00 and a session at 07:00, the latter drawn.
C10_Witness ==
    \E f \in 1..Len(figs) : \E d \in DOMAIN WeekOf(figs[f]) :
        /\ Len(WeekOf(figs[f])[d]) = 2
        /\ Len(BlocksOf(figs[f], d)) = 1
        /\ BlocksOf(figs[f], d)[1].y = 7 * 60

----------------------------------------------------------------------------
(* C11 - C13: the day columns *)

\* The day list of a figure's week, empty for a day without a list.
DayList(fig, d) == IF d \in DOMAIN WeekOf(fig) THEN WeekOf(fig)[d] ELSE <<>>

RECURSIVE SumMinutes(_)
SumMinutes(S) ==
    IF S = {} THEN 0
    ELSE LET s == CHOOSE x \in S : TRUE
         IN  s.duration_minutes + SumMinutes(S \ {s})

\* C11: the daily total of a day is the sum of the durations of all the
\* sessions of the day, those before 07:00 (without rectangle) included.
\* The total is kept in minutes; the figure shows it divided by 60.
C11_DailyTotalCountsAllSessions ==
    \A f \in 1..Len(figs) : \A d \in 0..6 :
        figs[f].axes[d].daily_total = SumMinutes(Range(DayList(figs[f], d)))

\* A day whose only session starts at 06:30 and lasts 20 minutes: no
\* rectangle, and a total of 20 minutes.
C11_Witness ==
    \E f \in 1..Len(figs) : \E d \in 0..6 :
        /\ Len(DayList(figs[f], d)) = 1
        /\ StartMinute(DayList(figs[f], d)[1]) = 6 * 60 + 30
        /\ DayList(figs[f], d)[1].duration_minutes = 20
        /\ BlocksOf(figs[f], d) = <<>>
        /\ figs[f].axes[d].daily_total = 20

\* The task name of a rectangle, as the file holds it.
NameInFile(b) == rows[b.src].task_name

\* C12: the label of a rectangle is the task name when the name has at most
\* 18 characters, and otherwise its first 15 characters followed by three
\* dots; a label never has more than 18 characters.
C12_LabelTruncation ==
    \A f \in 1..Len(figs) : \A d \in 0..6 :
        \A k \in 1..Len(BlocksOf(figs[f], d)) :
            LET b == BlocksOf(figs[f], d)[k]
            IN  /\ Len(NameInFile(b)) <= 18 => b.label = NameInFile(b)
                /\ Len(NameInFile(b)) > 18 =>
                       b.label = SubSeq(NameInFile(b), 1, 15) \o <<".", ".", ".">>
                /\ Len(b.label) <= 18

\* One column holds a rectangle of an 18 character name, kept whole, and a
\* rectangle of a 19 character name, shortened.
C12_Witness ==
    \E f \in 1..Len(figs) : \E d \in 0..6 :
        \E j, k \in 1..Len(BlocksOf(figs[f], d)) :
            /\ Len(NameInFile(BlocksOf(figs[f], d)[j])) = 18
            /\ Len(BlocksOf(figs[f], d)[j].label) = 18
            /\ Len(NameInFile(BlocksOf(figs[f], d)[k])) = 19
            /\ BlocksOf(figs[f], d)[k].label[16] = "."

\* C13: two rectangles of one day column never overlap: their intervals
\* [y, y + height) are disjoint.  (Violated: two sessions that start in the
\* same minute of one day give two rectangles over the same interval.)
C13_RectanglesDisjoint ==
    \A f \in 1..Len(figs) : \A d \in 0..6 :
        \A j, k \in 1..Len(BlocksOf(figs[f], d)) :
            LET a == BlocksOf(figs[f], d)[j]
                b == BlocksOf(figs[f], d)[k]
            IN  j < k => \/ a.y + a.height <= b.y
                         \/ b.y + b.height <= a.y

----------------------------------------------------------------------------
(* C14 - C19: the index document *)

\* C14: a week whose file could not be saved is skipped and the run goes
\* on to the other weeks and to the index document.  (Violated: the
\* exception of plt.savefig ends the run, with no index document.)
C14_SaveFailureSkipsWeek ==
    pc = "save_raised" => html # NoDocument

\* The rows that pass the filter of the durations and names and have a
\* timestamp.
DatedSrc == {i \in ValidSrc : rows[i].timestamp.fmt = "ok"}

\* C16: a file that is present and has no valid row ends in the no-data
\* state: no week file and no index document are written, and no average is
\* the result of a division by a zero count.  (Violated: a file whose only
\* row has an empty timestamp cell gives a frame of one record and no week;
\* the index document is written with an average over 0 weeks.)
C16_NoValidRowsIsNoData ==
    (csv_exists /\ ~ToDatetimeRaises(rows) /\ DatedSrc = {}) =>
        /\ pc \in {"main", "nodata"}
        /\ saved = <<>>
        /\ html = NoDocument
        /\ html.avg_hours_per_week.den # 0

\* The index document has been written.
Written == pc \in {"written", "done"}

\* The week_start values of the records of the frame.
WeekStarts == {df[i].week_start.day : i \in Stamped(df)}

\* C17: the index document has one entry for each week_start of the
\* records, each entry names the file saved for its week, the entries are in
\* ascending order of week_start, and 'Weeks Tracked' is their number.
C17_OneEntryPerWeekAscending ==
    Written =>
        /\ {html.entries[k].week_start : k \in 1..Len(html.entries)} = WeekStarts
        /\ Len(html.entries) = Cardinality(WeekStarts)
        /\ \A j, k \in 1..Len(html.entries) :
               j < k => html.entries[j].week_start < html.entries[k].week_start
        /\ \A k \in 1..Len(html.entries) :
               /\ html.entries[k].filename = Filename(html.entries[k].week_start)
               /\ html.entries[k].filename = saved[k]
        /\ html.weeks_tracked = Len(html.entries)

\* An index document of two weeks.
C17_Witness ==
    /\ Written
    /\ Len(html.entries) = 2
    /\ Cardinality(WeekStarts) = 2

Ascii ==
    [c \in {".", "0", "1", "2", "3", "4", "5", "6", "7", "8", "9",
            "_", "e", "g", "k", "n", "p", "w"} |->
        CASE c = "." -> 46
          [] c = "0" -> 48 [] c = "1" -> 49 [] c = "2" -> 50 [] c = "3" -> 51
          [] c = "4" -> 52 [] c = "5" -> 53 [] c = "6" -> 54 [] c = "7" -> 55
          [] c = "8" -> 56 [] c = "9" -> 57
          [] c = "_" -> 95 [] c = "e" -> 101 [] c = "g" -> 103 [] c = "k" -> 107
          [] c = "n" -> 110 [] c = "p" -> 112 [] c = "w" -> 119]

\* a < b for two strings, as sorting compares them.
RECURSIVE LexLess(_, _)
LexLess(a, b) ==
    IF b = <<>> THEN FALSE
    ELSE IF a = <<>> THEN TRUE
    ELSE IF a[1] # b[1] THEN Ascii[a[1]] < Ascii[b[1]]
    ELSE LexLess(Tail(a), Tail(b))

\* The number a string of digits writes.
RECURSIVE DigitsValue(_)
DigitsValue(s) ==
    IF s = <<>> THEN 0
    ELSE 10 * DigitsValue(SubSeq(s, 1, Len(s) - 1))
         + (CHOOSE n \in 0..9 : Digits[n + 1] = s[Len(s)])

\* C19: the file of a week is named week_YYYY_MM_DD.png after the year, the
\* month and the day of week_start, month and day in two digits; two weeks
\* have two names, and the names are in lexical order exactly when their
\* weeks are in chronological order.
C19_FilenamesOrderedAsWeeks ==
    /\ \A k \in 1..Len(saved) :
          /\ Len(saved[k]) = 19
          /\ SubSeq(saved[k], 1, 5) = <<"w", "e", "e", "k", "_">>
          /\ saved[k][10] = "_" /\ saved[k][13] = "_"
          /\ SubSeq(saved[k], 16, 19) = <<".", "p", "n", "g">>
          /\ \A p \in {6, 7, 8, 9, 11, 12, 14, 15} : saved[k][p] \in Range(Digits)
          /\ DigitsValue(SubSeq(saved[k], 6, 9)) = Civil(sorted_weeks[k]).year
          /\ DigitsValue(SubSeq(saved[k], 11, 12)) = Civil(sorted_weeks[k]).month
          /\ DigitsValue(SubSeq(saved[k], 14, 15)) = Civil(sorted_weeks[k]).day
    /\ \A j, k \in 1..Len(saved) :
          /\ sorted_weeks[j] # sorted_weeks[k] => saved[j] # saved[k]
          /\ sorted_weeks[j] < sorted_weeks[k] <=> LexLess(saved[j], saved[k])

\* Two named weeks on the two sides of a new year, the later one with a
\* day of one digit.
C19_Witness ==
    /\ Len(saved) = 2
    /\ Civil(sorted_weeks[1]).year < Civil(sorted_weeks[2]).year
    /\ Civil(sorted_weeks[2]).day < 10
    /\ LexLess(saved[1], saved[2])

----------------------------------------------------------------------------
(* C20: the order inside the day lists *)

\* The stable sort by timestamp: each row is put after the rows that are
\* not later than it, so rows with equal timestamps keep their order.
RECURSIVE InsertByTimestamp(_, _)
InsertByTimestamp(r, s) ==
    IF s = <<>> THEN <<r>>
    ELSE IF Instant(Head(s).timestamp) <= Instant(r.timestamp)
         THEN <<Head(s)>> \o InsertByTimestamp(r, Tail(s))
         ELSE <<r>> \o s

RECURSIVE SortByTimestamp(_)
SortByTimestamp(s) ==
    IF s = <<>> THEN <<>>
    ELSE InsertByTimestamp(s[Len(s)], SortByTimestamp(SubSeq(s, 1, Len(s) - 1)))

\* main() has grouped the frame.
Grouped == pc \in {"weeks", "save_raised", "written", "done"}

\* C20: every day list of every week bucket is the stable sort by timestamp
\* of the records of that week and day: ascending, records of equal
\* timestamp in their input order, hence the same list for every order of
\* the input that keeps the equal timestamps in order.  (Violated: the sort
\* is not a stable one.)
C20_DayListsStablySorted ==
    Grouped =>
        \A w \in DOMAIN weekly_sessions_dict : \A d \in DOMAIN weekly_sessions_dict[w] :
            weekly_sessions_dict[w][d] = SortByTimestamp(DayData(WeekData(df, w), d))

----------------------------------------------------------------------------
(* C15: run_analysis and the AI text *)

\* C15: when this run's generate_gemini_report did not produce the AI text
\* (the module is not importable, the call raised, or the API failed),
\* run_analysis goes on to the report, and the AI section of the report it
\* writes is the fixed placeholder message.  (Violated: the section is
\* empty, holds the failure text, or holds the text an earlier run left.)
C15_PlaceholderWhenGeneratorFails ==
    (returned = "html_path" /\ gemini_result \in {"skipped", "raised", "failed"}) =>
        /\ focus_report.run = run
        /\ focus_report.ai = Placeholder

----------------------------------------------------------------------------
(* C21 - C24: the figure and the run as a whole *)

\* A week with an empty list for every day it has no list for.
Padded(weekly_sessions) ==
    [d \in 0..6 |-> IF d \in DOMAIN weekly_sessions THEN weekly_sessions[d] ELSE <<>>]

\* C21: a figure has the seven day slots 0..6; a day that has no list and a
\* day whose list is empty both get no rectangle and a daily total of 0, and
\* the axis range and the axis of every absent day are those the same week
\* gives with empty lists in the place of the absent days.
C21_SevenSlotsAbsentAsEmpty ==
    \A f \in 1..Len(figs) :
        /\ DOMAIN figs[f].axes = 0..6
        /\ \A d \in 0..6 :
              DayList(figs[f], d) = <<>> =>
                  /\ BlocksOf(figs[f], d) = <<>>
                  /\ figs[f].axes[d].daily_total = 0
        /\ LatestEndHour(Padded(WeekOf(figs[f]))) = LatestEndHour(WeekOf(figs[f]))
        /\ \A d \in (0..6) \ DOMAIN WeekOf(figs[f]) :
              figs[f].axes[d] = Axis(Padded(WeekOf(figs[f])), Padded(WeekOf(figs[f])), d,
                                     LatestEndHour(Padded(WeekOf(figs[f]))))

\* A figure of a week that has sessions on one day and no list for another.
C21_Witness ==
    \E f \in 1..Len(figs) : \E d, e \in 0..6 :
        /\ d \notin DOMAIN WeekOf(figs[f])
        /\ figs[f].axes[d].daily_total = 0
        /\ e \in DOMAIN WeekOf(figs[f])
        /\ BlocksOf(figs[f], e) # <<>>

\* C22: the run is sequential.  The figures are made in ascending order of
\* week_start, one for each week from the first on; a figure is made only
\* when all the figures before it have been saved; and the index document
\* exists only when the file of every week has been saved.
C22_WeeksInOrderIndexLast ==
    /\ Len(figs) <= Len(sorted_weeks)
    /\ \A k \in 1..Len(figs) : figs[k].week_start = sorted_weeks[k]
    /\ \A j, k \in 1..Len(figs) : j < k => figs[j].week_start < figs[k].week_start
    /\ Len(saved) <= Len(figs) /\ Len(figs) <= Len(saved) + 1
    /\ \A k \in 1..Len(saved) : saved[k] = Filename(figs[k].week_start)
    /\ html # NoDocument => Len(saved) = Len(sorted_weeks)
    /\ Len(saved) < Len(sorted_weeks) => pc \notin {"written", "done"}

\* In the middle of a run of two weeks: the first week is saved, the second
\* is not begun and there is no index document.
C22_Witness ==
    /\ pc = "weeks"
    /\ Len(sorted_weeks) = 2
    /\ Len(figs) = 1
    /\ Len(saved) = 1
    /\ html = NoDocument

\* C23: the totals agree across the levels.  Every record of the frame is
\* in exactly one day list; the seven daily totals of a week's figure add up
\* to the minutes of the week's entry; and the sessions and the minutes of
\* the entries add up to the document's total sessions and total minutes.
\* (Violated: a record without timestamp is in the frame and in the
\* document's totals, and in no week.)
C23_TotalsConserved ==
    /\ Grouped =>
          \A i \in 1..Len(df) :
              Cardinality({wd \in {<<w, d>> : w \in DOMAIN weekly_sessions_dict, d \in 0..6} :
                             df[i].src \in DaySrc(wd[1], wd[2])}) = 1
    /\ \A k \in 1..Len(timeline_files) :
          timeline_files[k].total_weekly_minutes =
              SumSeq([d \in 1..7 |-> figs[k].axes[d - 1].daily_total])
    /\ Written =>
          /\ SumSeq([k \in 1..Len(html.entries) |-> html.entries[k].total_sessions])
                = html.total_sessions
          /\ SumSeq([k \in 1..Len(html.entries) |-> html.entries[k].total_weekly_minutes])
                = html.total_minutes

\* C24: every rectangle lies inside the axis of its figure: it begins at or
\* after start_hour and ends at or before the end hour of the axis.
\* (Violated: the axis ends at 24 at the latest, and the rectangle of a
\* session that runs past midnight ends after 24.)
C24_RectanglesInsideAxis ==
    \A f \in 1..Len(figs) : \A d \in 0..6 :
        \A k \in 1..Len(BlocksOf(figs[f], d)) :
            LET b == BlocksOf(figs[f], d)[k]
            IN  /\ figs[f].axes[d].ylim[2] <= b.y
                /\ b.y + b.height <= figs[f].axes[d].ylim[1]

----------------------------------------------------------------------------
(* C25 - C26: run_analysis over several runs *)

\* C25: the AI text in the report of a run is text that the same run's
\* generate_gemini_report wrote, or no generated text: never the text an
\* earlier run left in output_dir.  (Violated: a run whose generator writes
\* nothing embeds the gemini_insights.md of the run before.)
C25_NoStaleAiText ==
    focus_report.ai.kind \in {"response", "failed"} =>
        focus_report.ai.run = focus_report.run

\* C26: run_analysis ends by returning None or the path of the report and
\* in no other way.  When it returns None (a step raised) the browser was
\* not opened; it returns the path only when this run wrote
\* focus_report.html; and the browser is opened only after that write.
C26_ReturnsNoneOrWrittenReport ==
    /\ apc = "returned" => returned \in {"None", "html_path"}
    /\ apc # "returned" => returned = "none"
    /\ returned = "None" => ~browser_opened
    /\ returned = "html_path" => (focus_report.run = run /\ browser_opened)
    /\ browser_opened => focus_report.run = run

\* A second run that returned None after the generator was called (building
\* or writing the report raised), with the report of the first run still in
\* output_dir.
C26_Witness ==
    /\ run = 2
    /\ apc = "returned"
    /\ returned = "None"
    /\ gemini_result # "none"
    /\ focus_report.run = 1
    /\ ~browser_opened

====
